---- MODULE Spec2Model ----
(***************************************************************************)
(* PDF outline extractor (src/src/main.py): the batch driver main, the     *)
(* per-file pipeline extract = read_lines, title_from, clean (with         *)
(* table_bboxes), detect_outline, logical_shift, json.dump.                *)
(*                                                                         *)
(* A text is a sequence of one-character strings, so that strip, lower,    *)
(* split and the two regular expressions are computed character by         *)
(* character.  Coordinates are integers in hundredths of a point; font     *)
(* sizes are integer points (read_lines rounds them).                      *)
(***************************************************************************)
EXTENDS Integers, Sequences, FiniteSets, TLC

VARIABLES
    fs,          \* app/input: file name -> what the PDF libraries return for it
    pc,          \* position of main / extract
    files,       \* main: sorted(in_dir.glob('*.pdf'))
    idx,         \* main: position of the for loop in files
    raw,         \* extract: raw
    title,       \* extract: title
    tables,      \* clean: tables (the result of table_bboxes)
    lines,       \* extract: lines (the result of clean)
    outln,       \* extract: outln
    outDir,      \* app/output: file name -> the JSON documents written to it
    log,         \* what main and extract printed, in order
    exitStatus   \* exit status of the process once main returned

vars == <<fs, pc, files, idx, raw, title, tables, lines, outln, outDir, log, exitStatus>>

---------------------------------------------------------------------------
(* Bounds of the model                                                     *)

MaxFiles == 2        \* files in app/input
MaxLines == 3        \* outline families: text lines of a document besides page footers
MaxRaw   == 3        \* cleaning and title families: raw lines of a document
MaxPage  == 3        \* pages of a document
MaxSizes == 5        \* scale family: font sizes larger than the body text

---------------------------------------------------------------------------
(* Characters and strings                                                  *)

Digits     == {"0", "1", "2", "3", "4", "5", "6", "7", "8", "9"}
Whitespace == {" ", "\t"}
UpperCase  == <<"A","B","C","D","E","F","G","H","I","J","K","L","M",
                "N","O","P","Q","R","S","T","U","V","W","X","Y","Z">>
LowerCase  == <<"a","b","c","d","e","f","g","h","i","j","k","l","m",
                "n","o","p","q","r","s","t","u","v","w","x","y","z">>

IsSpace(c) == c \in Whitespace
IsDigit(c) == c \in Digits

\* str.islower() of a one-character string
islower(c) == \E k \in 1..Len(LowerCase) : LowerCase[k] = c

LowerChar(c) ==
    IF \E k \in 1..Len(UpperCase) : UpperCase[k] = c
    THEN LowerCase[CHOOSE k \in 1..Len(UpperCase) : UpperCase[k] = c]
    ELSE c

\* str.lower()
lower(t) == [k \in 1..Len(t) |-> LowerChar(t[k])]

RECURSIVE lstrip(_)
lstrip(t) == IF t # <<>> /\ IsSpace(Head(t)) THEN lstrip(Tail(t)) ELSE t

RECURSIVE rstrip(_)
rstrip(t) == IF t # <<>> /\ IsSpace(t[Len(t)]) THEN rstrip(SubSeq(t, 1, Len(t) - 1)) ELSE t

\* str.strip()
strip(t) == rstrip(lstrip(t))

\* index of the first whitespace of t at or after k, Len(t)+1 if none
RECURSIVE WordEnd(_, _)
WordEnd(t, k) == IF k <= Len(t) /\ ~IsSpace(t[k]) THEN WordEnd(t, k + 1) ELSE k

\* str.split(): the words of t
RECURSIVE split(_)
split(t) ==
    LET s == lstrip(t) IN
    IF s = <<>> THEN <<>>
    ELSE LET e == WordEnd(s, 1) IN <<SubSeq(s, 1, e - 1)>> \o split(SubSeq(s, e, Len(s)))

\* ' '.join(parts)
RECURSIVE join(_)
join(parts) ==
    IF parts = <<>> THEN <<>>
    ELSE IF Len(parts) = 1 THEN parts[1]
    ELSE parts[1] \o <<" ">> \o join(Tail(parts))

\* str.count(ch)
count(t, ch) == Cardinality({k \in 1..Len(t) : t[k] = ch})

---------------------------------------------------------------------------
\* NUM_RE: digits, any number of ".digits" groups, then whitespace, anchored
\* at the start of the text.  COLON_RE: a colon at the end, after at least
\* one other character.

\* the position after the run of digits that starts at position k
RECURSIVE DigitsEnd(_, _)
DigitsEnd(t, k) == IF k <= Len(t) /\ IsDigit(t[k]) THEN DigitsEnd(t, k + 1) ELSE k

\* the position after the last ".digits" group of the run that starts at k
RECURSIVE GroupsEnd(_, _)
GroupsEnd(t, k) ==
    IF k <= Len(t) /\ t[k] = "." /\ DigitsEnd(t, k + 1) > k + 1
    THEN GroupsEnd(t, DigitsEnd(t, k + 1))
    ELSE k

\* NUM_RE.match(t): group(1) when t matches, <<>> when it does not.  Both
\* repetitions are greedy and neither can give a character back to a later
\* part of the pattern, so the scan decides the match.
NUM_RE(t) ==
    LET d == DigitsEnd(t, 1)
        e == GroupsEnd(t, d)
    IN  IF d > 1 /\ e <= Len(t) /\ IsSpace(t[e]) THEN SubSeq(t, 1, e - 1) ELSE <<>>

NumMatch(t) == NUM_RE(t) # <<>>

\* COLON_RE.search(t), for a text without line breaks
COLON_RE(t) == Len(t) >= 2 /\ t[Len(t)] = ":"

---------------------------------------------------------------------------
(* Program constants                                                       *)

max_chars   == 150     \* clean: max_chars
HdrBand     == 10      \* clean: hdr_pct = 0.10, in percent
HeadFactor  == 115     \* detect_outline: l.size >= body*1.15, in percent
CandFactor  == 105     \* detect_outline: ln.size < body*1.05, in percent
MaxHeads    == 4       \* detect_outline: most_common(4)
MaxTxt      == 150     \* detect_outline: len(txt) > 150
MinWords    == 3       \* detect_outline: len(txt.split()) > 3
MergeWords  == 2       \* detect_outline: len(cands[i+1].text.split()) <= 2
MaxLevel    == 4       \* detect_outline: min(count(".")+1, 4)
Bullet      == <<"*">> \* the text of a line that is only the bullet glyph U+2022

---------------------------------------------------------------------------
(* Sequences                                                               *)

Range(s) == {s[k] : k \in 1..Len(s)}

SetMax(S) == CHOOSE x \in S : \A y \in S : y <= x
SetMin(S) == CHOOSE x \in S : \A y \in S : x <= y

\* the elements of s in the order of their first occurrence (dict / Counter key order)
RECURSIVE Distinct(_)
Distinct(s) ==
    IF s = <<>> THEN <<>>
    ELSE LET r == Distinct(SubSeq(s, 1, Len(s) - 1))
             x == s[Len(s)]
         IN  IF x \in Range(r) THEN r ELSE Append(r, x)

Occurrences(s, x) == Cardinality({k \in 1..Len(s) : s[k] = x})

\* Counter(s).most_common(n): the distinct elements by descending count, equal
\* counts in the order first encountered, cut to n
most_common(s, n) ==
    LET d == Distinct(s)
        before(a, b) == \/ Occurrences(s, d[a]) > Occurrences(s, d[b])
                        \/ Occurrences(s, d[a]) = Occurrences(s, d[b]) /\ a < b
        rank(b) == 1 + Cardinality({a \in 1..Len(d) : before(a, b)})
        all == [r \in 1..Len(d) |-> d[CHOOSE b \in 1..Len(d) : rank(b) = r]]
    IN  SubSeq(all, 1, IF n < Len(d) THEN n ELSE Len(d))

\* list.sort(reverse=True) of a list of distinct numbers
SortDesc(s) ==
    [r \in 1..Len(s) |->
        CHOOSE x \in Range(s) : Cardinality({y \in Range(s) : y > x}) = r - 1]

---------------------------------------------------------------------------
(* Geometry: a bbox is <<x0, y0, x1, y1>>                                  *)

\* intersects(a, b): closed rectangles sharing at least one point
intersects_typo(a, b) ==
    ~(a[3] < b[1] \/ a[1] > b[3] \/ a[4] < b[2] \/ a[2] < b[4])

intersects(a, b) ==
    ~(a[3] < b[1] \/ a[1] > b[3] \/ a[4] < b[2] \/ a[2] > b[4])

\* a lies fully inside b
Inside(a, b) == b[1] <= a[1] /\ b[2] <= a[2] /\ a[3] <= b[3] /\ a[4] <= b[4]

\* round(x, 1) of a coordinate given in hundredths (no input ends in 5)
Round1(x) == 10 * ((x + 5) \div 10)

---------------------------------------------------------------------------
(* table_bboxes(pdf_path, n_pages)                                         *)
(* pdf.tables[i] is what find_tables returns for pdfplumber's page i;      *)
(* pdf.fail says where pdfplumber raises: "none", "open" (pdfplumber.open) *)
(* or "page" (find_tables on page pdf.failPage).                           *)

Raises(pdf, n_pages) ==
    \/ pdf.fail = "open"
    \/ pdf.fail = "page" /\ pdf.failPage <= n_pages /\ pdf.failPage <= Len(pdf.tables)

table_bboxes(pdf, n_pages) ==
    [i \in 1..n_pages |->
        IF pdf.fail = "open" THEN <<>>
        ELSE IF i > Len(pdf.tables) THEN <<>>
        ELSE IF pdf.fail = "page" /\ i >= pdf.failPage THEN <<>>
        ELSE pdf.tables[i]]

---------------------------------------------------------------------------
(* title_from(lines)                                                       *)

title_from_nodedup(ls) ==
    LET page1 == SelectSeq(ls, LAMBDA l : l.page = 1) IN
    IF page1 = <<>> THEN <<>>
    ELSE LET top   == SetMax({page1[k].size : k \in 1..Len(page1)})
             sel   == SelectSeq(page1, LAMBDA l : l.size = top)
         IN  join([k \in 1..Len(sel) |-> strip(sel[k].text)])

title_from(ls) ==
    LET page1 == SelectSeq(ls, LAMBDA l : l.page = 1) IN
    IF page1 = <<>> THEN <<>>
    ELSE LET top   == SetMax({page1[k].size : k \in 1..Len(page1)})
             sel   == SelectSeq(page1, LAMBDA l : l.size = top)
             parts == [k \in 1..Len(sel) |-> strip(sel[k].text)]
         IN  join(Distinct(parts))

---------------------------------------------------------------------------
(* clean(lines, pdf), given the tables table_bboxes returned               *)

PageOf(ls) == [k \in 1..Len(ls) |-> ls[k].page]

\* per_page: the lines of page pg, in order
per_page(ls, pg) == SelectSeq(ls, LAMBDA l : l.page = pg)

\* the lines in the order the two nested loops visit them: page by page, the
\* pages in the order of their first line (dict insertion order)
RECURSIVE Concat(_)
Concat(ss) == IF ss = <<>> THEN <<>> ELSE Head(ss) \o Concat(Tail(ss))

Visited(ls) ==
    LET pgs == Distinct(PageOf(ls)) IN Concat([k \in 1..Len(pgs) |-> per_page(ls, pgs[k])])

\* h taken from the page itself (US Letter, 792 pt) instead of from its lines
PageHeight_real(ls, pg) == 79200

\* h = max(l.bbox[3] for l in ln_list)
PageHeight(ls, pg) == SetMax({ls[k].bbox[4] : k \in {j \in 1..Len(ls) : ls[j].page = pg}})

\* the first three tests of the inner loop: the line is not skipped
Passes(ln, ls, tbls) ==
    LET h      == PageHeight(ls, ln.page)
        tboxes == IF ln.page <= Len(tbls) THEN tbls[ln.page] ELSE <<>>
    IN  /\ ~(Len(ln.text) > max_chars \/ ln.text = Bullet)
        /\ ~(100 * ln.bbox[2] < HdrBand * h \/ 100 * ln.bbox[4] > (100 - HdrBand) * h)
        /\ ~(\E k \in 1..Len(tboxes) : intersects(ln.bbox, tboxes[k]))

\* key = (ln.text.lower().strip(), round(ln.bbox[0], 1))
CleanKey(ln) == <<strip(lower(ln.text)), Round1(ln.bbox[1])>>

RECURSIVE CleanLoop(_, _, _)
CleanLoop(vis, ls, tbls) ==
    IF vis = <<>> THEN <<>>
    ELSE LET out == CleanLoop(SubSeq(vis, 1, Len(vis) - 1), ls, tbls)
             ln  == vis[Len(vis)]
             seen == {CleanKey(out[k]) : k \in 1..Len(out)}
         IN  IF Passes(ln, ls, tbls) /\ CleanKey(ln) \notin seen THEN Append(out, ln) ELSE out

clean(ls, tbls) == IF ls = <<>> THEN <<>> ELSE CleanLoop(Visited(ls), ls, tbls)

---------------------------------------------------------------------------
(* detect_outline(lines)                                                   *)

SizeOf(ls) == [k \in 1..Len(ls) |-> ls[k].size]

H(k) == <<"H1", "H2", "H3", "H4">>[k]

\* body = Counter(l.size for l in lines).most_common(1)[0][0]
BodySize(ls) == most_common(SizeOf(ls), 1)[1]

\* head_sizes without head_sizes.sort(reverse=True): in frequency order
HeadSizes_unsorted(ls) ==
    LET body == BodySize(ls)
        big  == SelectSeq(SizeOf(ls), LAMBDA z : 100 * z >= HeadFactor * body)
    IN  most_common(big, MaxHeads)

\* head_sizes, sorted: position k is the size of level Hk
HeadSizes(ls) ==
    LET body == BodySize(ls)
        big  == SelectSeq(SizeOf(ls), LAMBDA z : 100 * z >= HeadFactor * body)
    IN  SortDesc(most_common(big, MaxHeads))

\* size2lvl.get(size, 'H3')
size2lvl(heads, size) ==
    IF size \in Range(heads) THEN H(CHOOSE k \in 1..Len(heads) : heads[k] = size) ELSE "H3"

Min2(a, b) == IF a < b THEN a ELSE b

\* the level of an entry with text txt made from a line of size size
Level(txt, size, heads) ==
    IF NumMatch(txt) THEN H(Min2(count(NUM_RE(txt), ".") + 1, MaxLevel))
    ELSE IF COLON_RE(txt) THEN "H3"
    ELSE size2lvl(heads, size)

\* the candidate filter
IsCand(ln, body, heads) ==
    LET txt == strip(ln.text)
        wds == split(txt)
    IN  /\ ~(100 * ln.size < CandFactor * body)
        /\ ~(Len(txt) > MaxTxt /\ ~NumMatch(txt))
        /\ ~(Len(wds) > MinWords /\ islower(wds[1][1]) /\ ~NumMatch(txt))
        /\ (ln.size \in Range(heads) \/ NumMatch(txt) \/ COLON_RE(txt))

Cands(ls) == SelectSeq(ls, LAMBDA l : IsCand(l, BodySize(ls), HeadSizes(ls)))

\* the merge rule: the next candidate is on the same page and has <= 2 words
Merges(cands, i) ==
    /\ i + 1 <= Len(cands)
    /\ cands[i + 1].page = cands[i].page
    /\ Len(split(cands[i + 1].text)) <= MergeWords

MergedText(cands, i) ==
    IF Merges(cands, i)
    THEN strip(cands[i].text) \o <<" ">> \o strip(cands[i + 1].text)
    ELSE strip(cands[i].text)

\* The entry the while loop appends at position i.  src is not a key of the
\* dict: it records which Line objects the text was taken from.
Entry(cands, i, heads) ==
    [level |-> Level(MergedText(cands, i), cands[i].size, heads),
     text  |-> MergedText(cands, i),
     page  |-> cands[i].page,
     src   |-> IF Merges(cands, i) THEN {cands[i].id, cands[i + 1].id} ELSE {cands[i].id}]

\* the while loop from position i
RECURSIVE BuildOutline(_, _, _)
BuildOutline(cands, i, heads) ==
    IF i > Len(cands) THEN <<>>
    ELSE <<Entry(cands, i, heads)>>
         \o BuildOutline(cands, IF Merges(cands, i) THEN i + 2 ELSE i + 1, heads)

\* k = (h['text'].lower(), h['level'])
DedupKey_text(h) == <<h.text, h.level>>

DedupKey(h) == <<lower(h.text), h.level>>

\* deduplicate (text, level)
RECURSIVE Dedup(_)
Dedup(outline) ==
    IF outline = <<>> THEN <<>>
    ELSE LET final == Dedup(SubSeq(outline, 1, Len(outline) - 1))
             h     == outline[Len(outline)]
         IN  IF DedupKey(h) \in {DedupKey(final[k]) : k \in 1..Len(final)}
             THEN final ELSE Append(final, h)

\* the escape hatch: at most two pages and every line numbered
Hatch(ls) == Cardinality(Range(PageOf(ls))) <= 2 /\ \A k \in 1..Len(ls) : NumMatch(ls[k].text)

\* the outline before deduplication
Outline(ls) == BuildOutline(Cands(ls), 1, HeadSizes(ls))

detect_outline(ls) ==
    IF ls = <<>> THEN <<>>
    ELSE IF Hatch(ls) THEN <<>>
    ELSE Dedup(Outline(ls))

---------------------------------------------------------------------------
(* logical_shift(outl)                                                     *)

Max2(a, b) == IF a > b THEN a ELSE b

Shift(first) == IF first = 1 THEN 0 ELSE 0 - (first - 2)

logical_shift_zero(outl) ==
    IF outl = <<>> THEN outl
    ELSE LET first == SetMin({outl[k].page : k \in 1..Len(outl)})
         IN  [k \in 1..Len(outl) |-> [outl[k] EXCEPT !.page = outl[k].page - first]]

\* logical_shift with shift = -(first - 1): the first heading lands on page 1
logical_shift_first1(outl) ==
    IF outl = <<>> THEN outl
    ELSE LET first == SetMin({outl[k].page : k \in 1..Len(outl)})
         IN  [k \in 1..Len(outl) |->
                [outl[k] EXCEPT !.page = Max2(1, outl[k].page - (first - 1))]]

\* logical_shift without the special case first == 1: shift = -(first - 2)
logical_shift_always(outl) ==
    IF outl = <<>> THEN outl
    ELSE LET first == SetMin({outl[k].page : k \in 1..Len(outl)})
         IN  [k \in 1..Len(outl) |->
                [outl[k] EXCEPT !.page = Max2(1, outl[k].page - (first - 2))]]

logical_shift(outl) ==
    IF outl = <<>> THEN outl
    ELSE LET first == SetMin({outl[k].page : k \in 1..Len(outl)})
         IN  [k \in 1..Len(outl) |->
                [outl[k] EXCEPT !.page = Max2(1, outl[k].page + Shift(first))]]

---------------------------------------------------------------------------
(* The program: main and extract                                           *)

\* sorted(...) of a set of file names; a name is a number, in name order
sorted(S) == [r \in 1..Cardinality(S) |-> CHOOSE x \in S : Cardinality({y \in S : y < x}) = r - 1]

NoPdf == [readable |-> FALSE, lines |-> <<>>, tables |-> <<>>, fail |-> "none", failPage |-> 0]

\* the file extract is working on
Cur == files[idx]

\* json.dump writes the three keys of each dict of the outline
Json(t, outl) ==
    [title |-> t,
     outline |-> [k \in 1..Len(outl) |->
                    [level |-> outl[k].level, text |-> outl[k].text, page |-> outl[k].page]]]

\* main: for pdf in sorted(in_dir.glob('*.pdf'))
MainStart ==
    /\ pc = "start"
    /\ files' = sorted(DOMAIN fs)
    /\ idx' = 1
    /\ pc' = "loop"
    /\ UNCHANGED <<fs, raw, title, tables, lines, outln, outDir, log, exitStatus>>

\* main: the loop takes the next file and calls extract, or ends; main then
\* returns and the process exits with status 0
MainLoop ==
    /\ pc = "loop"
    /\ IF idx <= Len(files)
       THEN pc' = "read" /\ UNCHANGED exitStatus
       ELSE pc' = "done" /\ exitStatus' = 0
    /\ UNCHANGED <<fs, files, idx, raw, title, tables, lines, outln, outDir, log>>

ReadLines_abort ==
    /\ pc = "read"
    /\ IF fs[Cur].readable
       THEN /\ raw' = fs[Cur].lines
            /\ pc' = "title"
            /\ UNCHANGED <<idx, log, exitStatus>>
       ELSE /\ log' = Append(log, <<"failed", Cur>>)
            /\ pc' = "done"
            /\ exitStatus' = 1
            /\ UNCHANGED <<raw, idx>>
    /\ UNCHANGED <<fs, files, title, tables, lines, outln, outDir>>

\* extract: raw = read_lines(pdf_path).  fitz.open raises on an unreadable
\* file; main's except prints it and the loop goes on
ReadLines ==
    /\ pc = "read"
    /\ IF fs[Cur].readable
       THEN /\ raw' = fs[Cur].lines
            /\ pc' = "title"
            /\ UNCHANGED <<idx, log>>
       ELSE /\ log' = Append(log, <<"failed", Cur>>)
            /\ idx' = idx + 1
            /\ pc' = "loop"
            /\ UNCHANGED raw
    /\ UNCHANGED <<fs, files, title, tables, lines, outln, outDir, exitStatus>>

\* extract: title = title_from(raw)
TitleFrom ==
    /\ pc = "title"
    /\ title' = title_from(raw)
    /\ pc' = "clean"
    /\ UNCHANGED <<fs, files, idx, raw, tables, lines, outln, outDir, log, exitStatus>>

\* extract: lines = clean(raw, pdf_path), table_bboxes included
Clean ==
    /\ pc = "clean"
    /\ tables' = IF raw = <<>> THEN <<>>
                 ELSE table_bboxes(fs[Cur], SetMax(Range(PageOf(raw))))
    /\ lines' = clean(raw, tables')
    /\ pc' = "detect"
    /\ UNCHANGED <<fs, files, idx, raw, title, outln, outDir, log, exitStatus>>

\* extract: outln = detect_outline(lines)
DetectOutline ==
    /\ pc = "detect"
    /\ outln' = detect_outline(lines)
    /\ pc' = "shift"
    /\ UNCHANGED <<fs, files, idx, raw, title, tables, lines, outDir, log, exitStatus>>

\* extract: logical_shift(outln)
LogicalShift ==
    /\ pc = "shift"
    /\ outln' = logical_shift(outln)
    /\ pc' = "write"
    /\ UNCHANGED <<fs, files, idx, raw, title, tables, lines, outDir, log, exitStatus>>

\* extract: json.dump and the print; extract returns, its locals are gone
WriteJson ==
    /\ pc = "write"
    /\ outDir' = [outDir EXCEPT ![Cur] = Append(@, Json(title, outln))]
    /\ log' = Append(log, <<"written", Cur>>)
    /\ idx' = idx + 1
    /\ pc' = "loop"
    /\ raw' = <<>> /\ title' = <<>> /\ tables' = <<>> /\ lines' = <<>> /\ outln' = <<>>
    /\ UNCHANGED <<fs, files, exitStatus>>

Next ==
    \/ MainStart
    \/ MainLoop
    \/ ReadLines
    \/ TitleFrom
    \/ Clean
    \/ DetectOutline
    \/ LogicalShift
    \/ WriteJson

\* the state in which main is called on the input directory dir
Start(dir) ==
    /\ fs = dir
    /\ pc = "start"
    /\ files = <<>>
    /\ idx = 0
    /\ raw = <<>> /\ title = <<>> /\ tables = <<>> /\ lines = <<>> /\ outln = <<>>
    /\ outDir = [f \in DOMAIN dir |-> <<>>]
    /\ log = <<>>
    /\ exitStatus = -1

---------------------------------------------------------------------------
(* Inputs: the texts                                                       *)

T_Intro    == <<"1","."," ","I","n","t","r","o","d","u","c","t","i","o","n">>
T_Details  == <<"2",".","3"," ","D","e","t","a","i","l","s">>
T_Sub      == <<"2",".","3",".","4"," ","S","u","b">>
T_Scope    == <<"1","."," ","S","c","o","p","e">>
T_Defs     == <<"2","."," ","D","e","f","i","n","i","t","i","o","n","s">>
T_Chapter  == <<"C","h","a","p","t","e","r">>
T_One      == <<"O","n","e">>
T_OneColon == <<"O","n","e",":">>
T_Notes    == <<"N","o","t","e","s",":">>
T_notes    == <<"n","o","t","e","s",":">>
T_Body     == <<"t","h","e"," ","c","a","t"," ","s","a","t"," ","o","n"," ","a"," ","m","a","t">>
T_Foo      == <<"F","o","o">>
T_Bar      == <<"B","a","r">>
T_baz      == <<"b","a","z">>
T_PageNo   == <<"7">>
T_Long     == <<"A","n"," ","O","l","d"," ","C","a","t">>
T_LongColon == <<"A","n"," ","O","l","d"," ","C","a","t",":">>

---------------------------------------------------------------------------
(* Inputs: documents                                                       *)

Line(t, z, pg, bb) == [id |-> 0, text |-> t, size |-> z, page |-> pg, bbox |-> bb]

\* read_lines makes one Line object per line: the id is the object's identity
Numbered(ls) == [k \in 1..Len(ls) |-> [ls[k] EXCEPT !.id = k]]

Pdf(ls, tbls, fl, fp) ==
    [readable |-> TRUE, lines |-> Numbered(ls), tables |-> tbls, fail |-> fl, failPage |-> fp]

\* read_lines goes through the pages in order: the pages of the lines never decrease
PageSeqs(n, P) == {p \in [1..n -> 1..P] : \A a, b \in 1..n : a < b => p[a] <= p[b]}

\* Laid-out documents: every page that has text ends with a page-number
\* footer at the bottom; the text lines stand one below the other between
\* the header and footer bands; a line starts at the left margin of its page
\* (odd and even pages have different margins) plus an indent that goes with
\* its font size.
Margin(pg) == IF pg % 2 = 1 THEN 7200 ELSE 9004

Indent(z) == 100 * z

FooterLine(pg) == Line(T_PageNo, 10, pg, <<30000, 75000, 31000, 76000>>)

TextLine(t, z, pg, j) ==
    Line(t, z, pg, <<Margin(pg) + Indent(z), 10000 + 2000 * j,
                     Margin(pg) + 40000, 11200 + 2000 * j>>)

LaidOut(t, z, p) ==
    LET n    == Len(t)
        row(k) == Cardinality({a \in 1..k : p[a] = p[k]})
        last(k) == k = n \/ p[k + 1] # p[k]
    IN  Concat([k \in 1..n |->
                 IF last(k) THEN <<TextLine(t[k], z[k], p[k], row(k)), FooterLine(p[k])>>
                 ELSE <<TextLine(t[k], z[k], p[k], row(k))>>])

NoTables(ls) == [i \in 1..(IF ls = <<>> THEN 0 ELSE SetMax(Range(PageOf(ls)))) |-> <<>>]

LaidOutPdf(t, z, p) == Pdf(LaidOut(t, z, p), NoTables(LaidOut(t, z, p)), "none", 0)

\* main is started on a directory holding one laid-out document of up to N
\* text lines on up to P pages, with these texts and sizes
StartLaidOut(texts, sizes, N, P) ==
    \E n \in 0..N : \E t \in [1..n -> texts], z \in [1..n -> sizes], p \in PageSeqs(n, P) :
        Start([f \in {1} |-> LaidOutPdf(t, z, p)])

\* a document style: the text that is set in each font size
Styled(z) == IF z = 10 THEN T_Body ELSE IF z = 12 THEN T_Notes ELSE T_OneColon

\* main is started on a directory holding one laid-out document of up to N
\* text lines on up to P pages, set in this style
StartStyled(sizes, N, P) ==
    \E n \in 0..N : \E z \in [1..n -> sizes], p \in PageSeqs(n, P) :
        Start([f \in {1} |-> LaidOutPdf([k \in 1..n |-> Styled(z[k])], z, p)])

\* Raw documents: every line takes its box from a few places of the page
BoxTop    == <<7200, 3000, 40000, 5000>>
BoxMid    == <<7200, 30000, 40000, 31200>>
BoxCell   == <<12004, 40500, 20000, 41500>>
BoxFoot   == <<30000, 75000, 31000, 76000>>
TableRect == <<10000, 40000, 50000, 50000>>
BoxFlat   == <<7200, 0, 40000, 0>>     \* an empty box on the top edge of the page

\* What pdfplumber does: it finds no table, or it finds TableRect on each of
\* the two pages it sees and works, or raises in open, or in find_tables on
\* a page
TableCases ==
    {[tables |-> <<<<>>, <<>>>>, fail |-> "none", failPage |-> 0]} \cup
    {[tables |-> <<<<TableRect>>, <<TableRect>>>>, fail |-> fl[1], failPage |-> fl[2]] :
        fl \in {<<"none", 0>>, <<"open", 0>>, <<"page", 1>>, <<"page", 2>>}}

\* main is started on a directory holding one raw document of up to N lines
\* on up to P pages
StartRaw(texts, sizes, boxes, cases, N, P) ==
    \E n \in 0..N : \E t \in [1..n -> texts], z \in [1..n -> sizes],
                       b \in [1..n -> boxes], p \in PageSeqs(n, P), c \in cases :
        Start([f \in {1} |->
                 Pdf([k \in 1..n |-> Line(t[k], z[k], p[k], b[k])], c.tables, c.fail, c.failPage)])

NoTableCase == {[tables |-> <<<<>>, <<>>>>, fail |-> "none", failPage |-> 0]}

\* a directory of up to MaxFiles files, each unreadable, empty, or a small document
SmallPdfs ==
    {NoPdf, Pdf(<<>>, <<>>, "none", 0),
     Pdf(LaidOut(<<T_Body, T_Chapter>>, <<10, 14>>, <<1, 1>>), <<<<>>>>, "none", 0)}

StartBatch == \E n \in 0..MaxFiles : \E dir \in [1..n -> SmallPdfs] : Start(dir)

\* the texts and sizes of the heading families: numbered headings, numbered
\* forms, headings broken over two lines
HeadingFamilies ==
    {[texts |-> {T_Body, T_Intro, T_Details, T_Sub}, sizes |-> {10, 11, 14}],
     [texts |-> {T_Scope, T_Defs},           sizes |-> {10, 14}],
     [texts |-> {T_Chapter, T_One, T_OneColon}, sizes |-> {10, 12, 14}]}

\* The scale family: a one-page document of up to three lines of body text,
\* then lines of three words, each in a font size of its own above the body
\* size, the last of them possibly ending with a colon, then possibly a line
\* of one word in any of the sizes.
BodyTexts == <<T_Body, T_Foo, T_Bar>>

HeadScale == {10 + 2 * i : i \in 1..MaxSizes}

\* the sizes of S in ascending or in descending order
Ascending(S) ==
    [r \in 1..Cardinality(S) |-> CHOOSE x \in S : Cardinality({y \in S : y < x}) = r - 1]

ScaleSeqs == UNION {{Ascending(S), SortDesc(Ascending(S))} : S \in SUBSET HeadScale}

ScaleDoc(nb, z, colon, d) ==
    LET n == Len(z)
        t == [k \in 1..nb |-> BodyTexts[k]]
             \o [k \in 1..n |-> IF colon /\ k = n THEN T_LongColon ELSE T_Long]
             \o (IF d = 0 THEN <<>> ELSE <<T_One>>)
        s == [k \in 1..nb |-> 10] \o z \o (IF d = 0 THEN <<>> ELSE <<d>>)
    IN  LaidOutPdf(t, s, [k \in 1..Len(t) |-> 1])

StartScale ==
    \E nb \in 1..3 : \E z \in ScaleSeqs :
        \E colon \in BOOLEAN, d \in {0, 10} \cup HeadScale :
            Start([f \in {1} |-> ScaleDoc(nb, z, colon, d)])

---------------------------------------------------------------------------
(* Specifications: the same program on each family of inputs               *)

\* batches of small files, and single documents for cleaning
Init ==
    \/ StartBatch
    \/ StartRaw({T_Chapter}, {10, 14}, {BoxTop, BoxMid, BoxCell, BoxFoot}, TableCases, MaxRaw, 2)
Spec == Init /\ [][Next]_vars

\* single documents for the title
InitTitle ==
    \/ StartBatch
    \/ StartRaw({T_Foo, T_Bar, T_baz}, {12, 24}, {BoxTop, BoxFoot}, NoTableCase, MaxRaw, 2)
SpecTitle == InitTitle /\ [][Next]_vars

\* single laid-out documents for the outline
InitOutline ==
    \/ StartBatch
    \/ StartLaidOut({T_Notes, T_notes}, {10, 12, 14}, MaxLines, MaxPage)
SpecOutline == InitOutline /\ [][Next]_vars

\* single laid-out documents of the heading families
InitHeadings ==
    \/ StartBatch
    \/ \E fam \in HeadingFamilies : StartLaidOut(fam.texts, fam.sizes, MaxLines, 2)
SpecHeadings == InitHeadings /\ [][Next]_vars

\* single raw documents for the header and footer bands
InitBands ==
    \/ StartBatch
    \/ StartRaw({T_Notes}, {10, 14}, {BoxMid, BoxCell, BoxFoot, BoxFlat}, NoTableCase, MaxRaw, 2)
SpecBands == InitBands /\ [][Next]_vars

\* single laid-out documents whose headings start after the front matter
InitShift ==
    \/ StartBatch
    \/ StartStyled({10, 12, 14}, MaxLines, MaxPage + 1)
SpecShift == InitShift /\ [][Next]_vars

\* single one-page documents of the scale family
InitScale ==
    \/ StartBatch
    \/ StartScale
SpecScale == InitScale /\ [][Next]_vars

---------------------------------------------------------------------------
(* Properties                                                              *)

Ids(ls) == {ls[k].id : k \in 1..Len(ls)}

\* every JSON document written so far
Written == UNION {Range(outDir[f]) : f \in DOMAIN outDir}

\* the elements of s at the positions K, in order
Pick(s, K) ==
    [r \in 1..Cardinality(K) |-> s[CHOOSE k \in K : Cardinality({j \in K : j < k}) = r - 1]]

SamePair(a, b) == lower(a.text) = lower(b.text) /\ a.level = b.level

NoSamePair(outl) == \A a, b \in 1..Len(outl) : a < b => ~SamePair(outl[a], outl[b])

\* the entries the loop of detect_outline produced, before deduplication
Produced == IF lines = <<>> \/ Hatch(lines) THEN <<>> ELSE Outline(lines)

\* C1: the outline detect_outline returns, the outline after logical_shift
\* and every outline written hold no two entries with the same (lowercased
\* text, level) pair, and what detect_outline returns is the produced entries
\* without those that repeat the pair of an earlier one, in the same order.
C1_NoDuplicatePairs ==
    /\ pc \in {"shift", "write"} => NoSamePair(outln)
    /\ \A doc \in Written : NoSamePair(doc.outline)
    /\ pc = "shift" =>
         outln = Pick(Produced, {k \in 1..Len(Produced) :
                                   \A j \in 1..(k - 1) : ~SamePair(Produced[j], Produced[k])})

C1_DuplicateDropped ==
    /\ pc = "shift"
    /\ outln # <<>>
    /\ \E a, b \in 1..Len(Produced) :
         a < b /\ SamePair(Produced[a], Produced[b]) /\ Produced[a].text # Produced[b].text

LargestNonBody(ls, z) ==
    /\ z # BodySize(ls)
    /\ \A k \in 1..Len(ls) : ls[k].size # BodySize(ls) => ls[k].size <= z

Emitted(t, lvl) == \E k \in 1..Len(outln) : outln[k].text = t /\ outln[k].level = lvl

\* line k is the only line of its page: the merge rule cannot touch it
AloneOnPage(ls, k) == \A j \in 1..Len(ls) : j # k => ls[j].page # ls[k].page

\* C2: of the lines detect_outline is given, "1. Introduction" at the largest
\* non-body size is emitted with level H1, "2.3 Details" with level H2 and
\* "2.3.4 Sub" with level H3.  The claim is taken in its weakest reading: the
\* document also holds a line of plain text (it is no numbered form), the
\* line is alone on its page (no merge) and its size passes the candidate
\* filter's size test (size >= 1.05 x body).
C2_NumberedLevels ==
    (pc = "shift" /\ \E j \in 1..Len(lines) : lines[j].text = T_Body) =>
        \A k \in 1..Len(lines) :
            (AloneOnPage(lines, k) /\ 100 * lines[k].size >= CandFactor * BodySize(lines)) =>
                /\ (lines[k].text = T_Intro /\ LargestNonBody(lines, lines[k].size))
                      => Emitted(T_Intro, "H1")
                /\ lines[k].text = T_Details => Emitted(T_Details, "H2")
                /\ lines[k].text = T_Sub => Emitted(T_Sub, "H3")

\* C3: when the lines of a one-page document are "1. Scope" and
\* "2. Definitions", whatever their sizes and order, the outline is empty.
C3_NumberedFormEmpty ==
    (/\ pc = "shift"
     /\ Len(lines) = 2
     /\ {lines[1].text, lines[2].text} = {T_Scope, T_Defs}
     /\ Range(PageOf(raw)) = {1})
    => outln = <<>>

\* the positions the while loop of detect_outline stops at, from position i
RECURSIVE Steps(_, _)
Steps(cands, i) ==
    IF i > Len(cands) THEN {}
    ELSE {i} \cup Steps(cands, IF Merges(cands, i) THEN i + 2 ELSE i + 1)

\* C4: when the loop stands on a candidate c whose next candidate d is on the
\* same page and has at most 2 words, the outline holds at most one entry made
\* from c or d; it is made from both, its text is c's text, a space, d's text,
\* its page is c's page and its level is the level c alone is classified with.
C4_MergeKeepsLevel ==
    (pc = "shift" /\ Produced # <<>>) =>
        LET cands == Cands(lines)
            heads == HeadSizes(lines)
        IN  \A i \in Steps(cands, 1) :
              Merges(cands, i) =>
                LET c  == cands[i]
                    d  == cands[i + 1]
                    es == {k \in 1..Len(outln) : outln[k].src \cap {c.id, d.id} # {}}
                IN  /\ Cardinality(es) <= 1
                    /\ \A k \in es :
                         /\ outln[k].src = {c.id, d.id}
                         /\ outln[k].text = strip(c.text) \o <<" ">> \o strip(d.text)
                         /\ outln[k].page = c.page
                         /\ outln[k].level = Level(strip(c.text), c.size, heads)

AfterClean == pc \in {"detect", "shift", "write"}

\* C5: when table detection raised, in open or on any page, clean works with
\* no table on any page, and removes what it removes without any table.
C5_FailureMeansNoTables ==
    (AfterClean /\ raw # <<>> /\ Raises(fs[Cur], SetMax(Range(PageOf(raw))))) =>
        /\ \A i \in 1..Len(tables) : tables[i] = <<>>
        /\ lines = clean(raw, NoTables(raw))

\* C6: when main has returned, the exit status signals failure exactly when
\* some file could not be read, and every readable file has its JSON.
C6_ExitStatusReflectsFailures ==
    pc = "done" =>
        /\ (exitStatus # 0) <=> (\E f \in DOMAIN fs : ~fs[f].readable)
        /\ \A f \in DOMAIN fs : fs[f].readable => Len(outDir[f]) >= 1

\* what extract writes for a document taken alone
JsonOf(pdf) ==
    LET tbls == IF pdf.lines = <<>> THEN <<>>
                ELSE table_bboxes(pdf, SetMax(Range(PageOf(pdf.lines))))
    IN  Json(title_from(pdf.lines), logical_shift(detect_outline(clean(pdf.lines, tbls))))

\* C7: when main has returned, the log names every file of the directory
\* once, in name order; an unreadable file is reported as failed and has no
\* JSON; a readable file has exactly one JSON, the one it gets when alone.
C7_EveryFileOnceFailuresIsolated ==
    pc = "done" =>
        /\ Len(log) = Cardinality(DOMAIN fs)
        /\ \A k \in 1..Len(log) : log[k][2] \in DOMAIN fs
        /\ \A a, b \in 1..Len(log) : a < b => log[a][2] < log[b][2]
        /\ \A k \in 1..Len(log) :
             LET f == log[k][2] IN
             IF fs[f].readable
             THEN log[k][1] = "written" /\ outDir[f] = <<JsonOf(fs[f])>>
             ELSE log[k][1] = "failed" /\ outDir[f] = <<>>

C7_ReadableAfterUnreadable ==
    /\ pc = "done"
    /\ \E f, g \in DOMAIN fs :
         f < g /\ ~fs[f].readable /\ fs[g].readable /\ Len(outDir[g]) = 1
                /\ outDir[g][1].outline # <<>>

\* the table rectangles clean was given for the page of line l
Supplied(l) == IF l.page <= Len(tables) THEN Range(tables[l.page]) ELSE {}

InTable(l) == \E tb \in Supplied(l) : Inside(l.bbox, tb)

\* C8: a raw line whose bbox lies inside a table rectangle supplied for its
\* page is not among the cleaned lines, and no outline entry is made from it.
C8_TableLinesNeverInOutline ==
    AfterClean =>
        \A k \in 1..Len(raw) :
            InTable(raw[k]) =>
                /\ raw[k].id \notin Ids(lines)
                /\ pc \in {"shift", "write"} =>
                     \A e \in 1..Len(outln) : raw[k].id \notin outln[e].src

C8_HeadingSizedLineInTable ==
    /\ pc = "shift"
    /\ lines # <<>>
    /\ \E k \in 1..Len(raw) :
         InTable(raw[k]) /\ 100 * raw[k].size >= HeadFactor * BodySize(lines)

\* C9: every entry of the outline after logical_shift, and of every outline
\* written, has page >= 1.
C9_PagesAtLeastOne ==
    /\ pc = "write" => \A k \in 1..Len(outln) : outln[k].page >= 1
    /\ \A doc \in Written : \A k \in 1..Len(doc.outline) : doc.outline[k].page >= 1

C9_ShiftedEntry ==
    /\ pc = "write"
    /\ \E k \in 1..Len(outln), j \in 1..Len(lines) :
         lines[j].id \in outln[k].src /\ lines[j].page >= 3 /\ outln[k].page < lines[j].page

\* the title of raw lines ls, from the positions of the lines it is made of
TitleOf(ls) ==
    LET P1  == {k \in 1..Len(ls) : ls[k].page = 1}
        Top == {k \in P1 : \A j \in P1 : ls[j].size <= ls[k].size}
        Fst == {k \in Top : \A j \in Top : j < k => ls[j].text # ls[k].text}
    IN  join(Pick([k \in 1..Len(ls) |-> ls[k].text], Fst))

FooBarBaz(ls) ==
    /\ Len(ls) = 3
    /\ \A k \in 1..3 : ls[k].page = 1
    /\ <<ls[1].text, ls[2].text, ls[3].text>> = <<T_Foo, T_Bar, T_baz>>
    /\ <<ls[1].size, ls[2].size, ls[3].size>> = <<24, 24, 12>>

\* C10: once title_from has run, and through clean and the later steps, the
\* title is the texts of the page-1 raw lines of the largest page-1 size, each
\* text once, in the order of first occurrence, joined by single spaces; it is
\* empty when page 1 has no lines; Foo@24, Bar@24, baz@12 give "Foo Bar"; the
\* title written is that title.
C10_TitleFromRawPageOne ==
    /\ pc \in {"clean", "detect", "shift", "write"} =>
         /\ title = TitleOf(raw)
         /\ (\A k \in 1..Len(raw) : raw[k].page # 1) => title = <<>>
         /\ FooBarBaz(raw) => title = <<"F","o","o"," ","B","a","r">>
    /\ \A f \in DOMAIN outDir : \A k \in 1..Len(outDir[f]) :
         outDir[f][k].title = TitleOf(fs[f].lines)

C10_TitleLinesCleanedAway ==
    /\ pc = "detect"
    /\ FooBarBaz(raw)
    /\ title = <<"F","o","o"," ","B","a","r">>
    /\ lines = <<>>

---------------------------------------------------------------------------
(* C11: the size to level mapping                                          *)

\* the Line an entry starts with, and its font size
FirstLine(e) == CHOOSE l \in Range(lines) : l.id = SetMin(e.src)

EntrySize(e) == FirstLine(e).size

\* an entry whose level is left to the size mapping
SizeMapped(e) == ~NumMatch(e.text) /\ ~COLON_RE(e.text)

LevelNo(e) == CHOOSE k \in 1..4 : H(k) = e.level

\* how often, and where first, a size occurs among the lines in S
Freq(S, z) == Cardinality({l \in S : l.size = z})

FirstAt(S, z) == SetMin({l.id : l \in {m \in S : m.size = z}})

\* size a ranks before size b among the lines in S: more frequent, or as
\* frequent and met earlier
Before(S, a, b) ==
    \/ Freq(S, a) > Freq(S, b)
    \/ Freq(S, a) = Freq(S, b) /\ FirstAt(S, a) < FirstAt(S, b)

SizesIn(S) == {l.size : l \in S}

MostFrequent == CHOOSE z \in SizesIn(Range(lines)) :
                    \A y \in SizesIn(Range(lines)) \ {z} : Before(Range(lines), z, y)

EligibleLines ==
    LET body == MostFrequent
    IN  {l \in Range(lines) : 100 * l.size >= 115 * body}

Eligible == SizesIn(EligibleLines)

Selected ==
    LET EL == EligibleLines
        E  == SizesIn(EL)
    IN  {z \in E : Cardinality({y \in E : Before(EL, y, z)}) < 4}

SizeMappedEntries == {k \in 1..Len(outln) : SizeMapped(outln[k])}

---------------------------------------------------------------------------
(* C12: logical_shift                                                      *)

Pages(outl) == {outl[k].page : k \in 1..Len(outl)}

\* the least page of a non-empty outline
First(outl) == CHOOSE p \in Pages(outl) : \A q \in Pages(outl) : p <= q

\* outline new is outline old with the pages moved as the claim says
ShiftedFrom(old, new) ==
    /\ Len(new) = Len(old)
    /\ \A k \in 1..Len(old) :
         /\ new[k].text = old[k].text
         /\ new[k].level = old[k].level
         /\ new[k].page =
              IF First(old) = 1 THEN old[k].page
              ELSE IF old[k].page - (First(old) - 2) > 1
                   THEN old[k].page - (First(old) - 2) ELSE 1

\* C12: the step of extract that applies logical_shift leaves an empty
\* outline empty, leaves every page unchanged when the least page is 1, and
\* otherwise turns every page p into max(1, p - (first - 2)); the order, text
\* and level of every entry stay as they are.
C12_ShiftAsSpecified == [][pc = "shift" => ShiftedFrom(outln, outln')]_vars

\* an outline whose headings were on two different pages, the first of them
\* page 3 or later, has been shifted
C12_TwoPagesShifted ==
    /\ pc = "write"
    /\ \E j, k \in 1..Len(outln) :
         /\ FirstLine(outln[j]).page >= 3
         /\ FirstLine(outln[k]).page > FirstLine(outln[j]).page
         /\ outln[j].page = 2
         /\ outln[k].page = FirstLine(outln[k]).page - (FirstLine(outln[j]).page - 2)

---------------------------------------------------------------------------
(* C13: the footer band of clean                                           *)

OnPage(ls, pg) == {l \in Range(ls) : l.page = pg}

\* l is a lowest line of its page among the raw lines: no line of the page
\* has a larger bbox bottom
Lowest(l) == \A m \in OnPage(raw, l.page) : m.bbox[4] <= l.bbox[4]

\* page pg holds exactly one raw line
SingleLine(pg) == Cardinality(OnPage(raw, pg)) = 1

\* C13: after clean, every raw line whose bbox bottom is the largest of its
\* page, that bottom being > 0, is gone from the cleaned lines; so a page
\* holding a single line (with bottom > 0) has no cleaned line, and no outline
\* entry is made of a line of such a page.
C13_LowestLineDropped ==
    AfterClean =>
        /\ \A l \in Range(raw) : Lowest(l) /\ l.bbox[4] > 0 => l.id \notin Ids(lines)
        /\ \A l \in Range(raw) :
             SingleLine(l.page) /\ l.bbox[4] > 0 =>
                 /\ OnPage(lines, l.page) = {}
                 /\ \A k \in 1..Len(outln) : l.id \notin outln[k].src

\* a page of one line lost it, and on the other page the lowest line is gone
\* while a line above it was kept
C13_SinglePageAndFooterDropped ==
    /\ AfterClean
    /\ \E l, m, n \in Range(raw) :
         /\ SingleLine(l.page) /\ l.bbox[4] > 0 /\ l.id \notin Ids(lines)
         /\ m.page # l.page /\ n.page = m.page
         /\ Lowest(m) /\ m.id \notin Ids(lines)
         /\ n.id \in Ids(lines)

---------------------------------------------------------------------------
(* C14: logical_shift applied twice                                        *)

\* the page detect_outline gave entry e: the page of the line it starts with
PageBefore(e) == FirstLine(e).page

\* C14: once extract has applied logical_shift to the outline of
\* detect_outline (pages >= 1), the least page is 1 if it was 1 and 2
\* otherwise, the differences between the pages of any two entries are what
\* they were, and applying logical_shift again changes nothing.
C14_ShiftIdempotent ==
    pc = "write" /\ outln # <<>> =>
        /\ First(outln) = (IF \E k \in 1..Len(outln) : PageBefore(outln[k]) = 1 THEN 1 ELSE 2)
        /\ \A j, k \in 1..Len(outln) :
             outln[j].page - outln[k].page = PageBefore(outln[j]) - PageBefore(outln[k])
        /\ logical_shift(outln) = outln

\* a shifted outline of headings from two pages, the first after page 2, on
\* which a second application would have to move pages again if it moved any
C14_ShiftedOnceStable ==
    /\ pc = "write"
    /\ outln # <<>>
    /\ First(outln) = 2
    /\ \E j, k \in 1..Len(outln) :
         /\ PageBefore(outln[j]) > 2
         /\ outln[j].page < PageBefore(outln[j])
         /\ outln[k].page > outln[j].page
    /\ logical_shift(outln) = outln

====
